---- MODULE Spec2Model ----
(***************************************************************************)
(* DotGridHero (src/FRAMER_COMPONENT_dotGrid.tsx): a grid of dots, an NxN  *)
(* hover cluster around the dot nearest the pointer, and an optional       *)
(* trail of recently hovered dots driven by a requestAnimationFrame clock. *)
(*                                                                         *)
(* A step of the state machine is one committed React update: the handler  *)
(* that sets state, the render it causes and the effects of that render.   *)
(* The handlers only queue a value that nothing but the next render reads, *)
(* so a handler commutes with every frame callback that runs before its    *)
(* render, and taking handler, render and effects together loses no        *)
(* behaviour of the committed state.                                       *)
(*                                                                         *)
(* Numbers that the code keeps as floats are kept exact here: a level or a *)
(* scale is a fraction <<n, d>> with d > 0.                                *)
(***************************************************************************)
EXTENDS Integers, FiniteSets, Sequences, TLC

VARIABLES
    isStatic,       \* useIsStaticRenderer()
    trailEnabled,   \* props.trailEnabled
    trailHoldMs,    \* props.trailHoldMs
    trailFadeMs,    \* props.trailFadeMs
    hoverDotCount,  \* props.hoverDotCount
    dotSize,        \* props.dotSize
    gap,            \* props.gap
    dimensions,     \* useState({width, height}), as <<width, height>>
    hover,          \* useState<{x, y} | null>, as <<x, y>> or null
    lastHit,        \* lastHitRef.current: Map<index, timestamp>
    now,            \* useState(0): the trail clock the render reads
    rafRef,         \* rafRef.current: a frame-callback handle, or null
    rafQueue,       \* the browser's scheduled frame callbacks
    mounted,        \* the RAF effect has a cleanup registered ('mounted')
    alive,          \* the component is mounted
    clock,          \* performance.now()
    ev,             \* the last step taken
    call,           \* arguments of a pure function under test
    ret             \* its result

vars == <<isStatic, trailEnabled, trailHoldMs, trailFadeMs, hoverDotCount,
          dotSize, gap, dimensions, hover, lastHit, now, rafRef, rafQueue,
          mounted, alive, clock, ev, call, ret>>

(***************************************************************************)
(* Bounds and input sets                                                   *)
(***************************************************************************)
MaxTime == 5

HoldValues == {0, 1}
FadeValues == {0, 2}
CountValues == {1, 2}
DotSizes == {2}
Gaps == {4}
Sizes == {<<0, 0>>, <<14, 8>>}
Pointers == {<<1, 1>>, <<13, 7>>}

null == <<>>
NoHandle == 0

Max(a, b) == IF a >= b THEN a ELSE b
Min(a, b) == IF a <= b THEN a ELSE b
Abs(a) == IF a < 0 THEN -a ELSE a

\* the longest hold + fade any configuration gives
MaxExpire ==
    LET S == {Max(0, h) + Max(0, f) : h \in HoldValues, f \in FadeValues}
    IN  CHOOSE m \in S : \A x \in S : x <= m

\* the last instant at which a timestamp may be written, so that every entry
\* can still expire before the clock stops at MaxTime
Horizon == MaxTime - MaxExpire - 1

(***************************************************************************)
(* Fractions                                                               *)
(***************************************************************************)
Frac(n, d) == <<n, d>>
FEq(a, b) == a[1] * b[2] = b[1] * a[2]
FLeq(a, b) == a[1] * b[2] <= b[1] * a[2]
FLt(a, b) == a[1] * b[2] < b[1] * a[2]
FAdd(a, b) == <<a[1] * b[2] + b[1] * a[2], a[2] * b[2]>>
FSub(a, b) == <<a[1] * b[2] - b[1] * a[2], a[2] * b[2]>>
FMul(a, b) == <<a[1] * b[1], a[2] * b[2]>>
FMax(a, b) == IF FLeq(b, a) THEN a ELSE b
FMin(a, b) == IF FLeq(a, b) THEN a ELSE b
Zero == Frac(0, 1)
One == Frac(1, 1)

(***************************************************************************)
(* Grid calculation                                                        *)
(***************************************************************************)
cellOf(ds, g) == ds + g

\* colsOf without the clamp to one column
colsOf_noClamp(dim, ds, g) == (dim[1] + g) \div cellOf(ds, g)

\* Math.max(1, Math.floor((width + gap) / cell)).  dotSize and gap are whole
\* numbers (step 1), so the floor depends on the whole part of the width only.
colsOf(dim, ds, g) == Max(1, (dim[1] + g) \div cellOf(ds, g))
rowsOf(dim, ds, g) == Max(1, (dim[2] + g) \div cellOf(ds, g))

\* twice the x and y of the centre of the dot at (row, col): the code's
\* startX = extraX / 2 + dotSize / 2 may be a half
dotX2(dim, ds, g, col) ==
    (dim[1] - (cellOf(ds, g) * colsOf(dim, ds, g) - g)) + ds + 2 * col * cellOf(ds, g)
dotY2(dim, ds, g, row) ==
    (dim[2] - (cellOf(ds, g) * rowsOf(dim, ds, g) - g)) + ds + 2 * row * cellOf(ds, g)

\* grid[i] of the row-major list: its row and col
gridRow(i, nc) == i \div nc
gridCol(i, nc) == i % nc

\* the inner loop of the grid calculation: the dots of one row from col on
RECURSIVE gridPushRow(_, _, _, _, _)
gridPushRow(dim, ds, g, row, col) ==
    IF ~(col < colsOf(dim, ds, g)) THEN <<>>
    ELSE <<[x2 |-> dotX2(dim, ds, g, col), y2 |-> dotY2(dim, ds, g, row),
            col |-> col, row |-> row]>>
         \o gridPushRow(dim, ds, g, row, col + 1)

\* the outer loop: the rows from row on
RECURSIVE gridPushRows(_, _, _, _)
gridPushRows(dim, ds, g, row) ==
    IF ~(row < rowsOf(dim, ds, g)) THEN <<>>
    ELSE gridPushRow(dim, ds, g, row, 0) \o gridPushRows(dim, ds, g, row + 1)

\* { cols, rows, grid } as the useMemo returns it (grid[i] is grid[i + 1] here)
gridOf(dim, ds, g) ==
    [cols |-> colsOf(dim, ds, g), rows |-> rowsOf(dim, ds, g),
     grid |-> gridPushRows(dim, ds, g, 0)]

cols == colsOf(dimensions, dotSize, gap)
rows == rowsOf(dimensions, dotSize, gap)
Dots == 0 .. (rows * cols - 1)

(***************************************************************************)
(* Find hovered dot: the first dot of the list at the least distance       *)
(***************************************************************************)
dist2(hv, dim, ds, g, i) ==
    LET nc == colsOf(dim, ds, g)
        dx == dotX2(dim, ds, g, gridCol(i, nc)) - 2 * hv[1]
        dy == dotY2(dim, ds, g, gridRow(i, nc)) - 2 * hv[2]
    IN  dx * dx + dy * dy

\* the scan over the dot list from position i on, idx being the nearest dot
\* so far (-1 for none, its distance Infinity) and minDist its distance
RECURSIVE nearestFrom(_, _, _, _, _, _, _)
nearestFrom(hv, dim, ds, g, i, idx, minDist) ==
    IF i >= rowsOf(dim, ds, g) * colsOf(dim, ds, g) THEN idx
    ELSE IF idx = -1 \/ dist2(hv, dim, ds, g, i) < minDist
         THEN nearestFrom(hv, dim, ds, g, i + 1, i, dist2(hv, dim, ds, g, i))
         ELSE nearestFrom(hv, dim, ds, g, i + 1, idx, minDist)

\* the index of the hovered dot, or -1 for none
hoveredDotOf(hv, dim, ds, g) ==
    IF hv = null THEN -1 ELSE nearestFrom(hv, dim, ds, g, 0, -1, 0)

hoveredDot == hoveredDotOf(hover, dimensions, dotSize, gap)

(***************************************************************************)
(* NxN cluster indices                                                     *)
(***************************************************************************)
\* activeSetOf without the column bounds check: a cell past the row's end
\* lands on the next row
activeSetOf_noColumnCheck(hr, hc, nr, nc, count) ==
    LET hoverRadius == count \div 2
    IN  {(hr + dr) * nc + (hc + dc) :
            <<dr, dc>> \in {o \in ((-hoverRadius) .. hoverRadius) \X ((-hoverRadius) .. hoverRadius) :
                                ~(\/ hr + o[1] < 0
                                  \/ hr + o[1] >= nr)}}

activeSetOf(hr, hc, nr, nc, count) ==
    LET hoverRadius == count \div 2
    IN  {(hr + dr) * nc + (hc + dc) :
            <<dr, dc>> \in {o \in ((-hoverRadius) .. hoverRadius) \X ((-hoverRadius) .. hoverRadius) :
                                ~(\/ hr + o[1] < 0
                                  \/ hr + o[1] >= nr
                                  \/ hc + o[2] < 0
                                  \/ hc + o[2] >= nc)}}

\* (h, nc and nr range over the one value each has)
activeSetFor(hv, dim, ds, g, count) ==
    UNION {IF h = -1 THEN {}
           ELSE activeSetOf(gridRow(h, nc), gridCol(h, nc), nr, nc, count) :
                h \in {hoveredDotOf(hv, dim, ds, g)},
                nc \in {colsOf(dim, ds, g)},
                nr \in {rowsOf(dim, ds, g)}}

activeSet == activeSetFor(hover, dimensions, dotSize, gap, hoverDotCount)

(***************************************************************************)
(* Color helpers.  A color string is modelled by its format and the color  *)
(* it denotes: hexToRgb reads only the six-digit hex format.               *)
(***************************************************************************)
Hex(r, g, b) == [fmt |-> "hex", rgb |-> <<r, g, b>>]
Css(r, g, b) == [fmt |-> "rgb()", rgb |-> <<r, g, b>>]

hexToRgb(c) == IF c.fmt = "hex" THEN c.rgb ELSE <<0, 0, 0>>

\* Math.max(0, Math.min(255, Math.round(x))) of the fraction x
roundChannel(x) == Max(0, Min(255, (2 * x[1] + x[2]) \div (2 * x[2])))

rgbToHex(r, g, b) == [fmt |-> "hex", rgb |-> <<roundChannel(r), roundChannel(g), roundChannel(b)>>]

blend(a, b, t) ==
    LET ca == hexToRgb(a)
        cb == hexToRgb(b)
        ch(k) == FAdd(Frac(ca[k], 1), FMul(Frac(cb[k] - ca[k], 1), t))
    IN  rgbToHex(ch(1), ch(2), ch(3))

(***************************************************************************)
(* Trail level of a dot (0..1)                                             *)
(***************************************************************************)
\* getTrailLevelOf with the hold window open at its end (< for <=)
getTrailLevelOf_openHold(te, hits, holdMs, fadeMs, nw, i) ==
    IF ~te THEN Zero
    ELSE IF i \notin DOMAIN hits THEN Zero
    ELSE LET hold == Max(0, holdMs)
             fade == Max(0, fadeMs)
             elapsed == nw - hits[i]
         IN  IF elapsed < hold THEN One
             ELSE IF fade <= 0 THEN Zero
             ELSE FMax(Zero, FMin(One, FSub(One, Frac(elapsed - hold, fade))))

getTrailLevelOf(te, hits, holdMs, fadeMs, nw, i) ==
    IF ~te THEN Zero
    ELSE IF i \notin DOMAIN hits THEN Zero
    ELSE LET hold == Max(0, holdMs)
             fade == Max(0, fadeMs)
             elapsed == nw - hits[i]
         IN  IF elapsed <= hold THEN One
             ELSE IF fade <= 0 THEN Zero
             ELSE FMax(Zero, FMin(One, FSub(One, Frac(elapsed - hold, fade))))

getTrailLevel(i) == getTrailLevelOf(trailEnabled, lastHit, trailHoldMs, trailFadeMs, now, i)

(***************************************************************************)
(* Render of one dot: level, scale target, color, radius                   *)
(***************************************************************************)
\* hoverScale with the whole count, not half of it, as the distance of scale 1
hoverScale_fullCount(dist, count, intensity) ==
    LET maxDist == count
        den == IF maxDist = 0 THEN 1 ELSE maxDist
        t == IF den > 0 THEN Frac(den - dist, den) ELSE Frac(dist - den, -den)
    IN  FAdd(One, FMul(intensity, FMax(Zero, t)))

\* hoverScale: the distance-based scale target of a hover-active dot
hoverScale(dist, count, intensity) ==
    LET maxDist == count \div 2
        den == IF maxDist = 0 THEN 1 ELSE maxDist
        t == IF den > 0 THEN Frac(den - dist, den) ELSE Frac(dist - den, -den)
    IN  FAdd(One, FMul(intensity, FMax(Zero, t)))

renderDot(isHoverActive, dist, count, trailLevel, baseColor, activeColor, intensity, baseRadius) ==
    LET level == IF isHoverActive THEN One ELSE trailLevel
        scaleTarget ==
            IF isHoverActive THEN hoverScale(dist, count, intensity)
            ELSE IF FLt(Zero, level) THEN FAdd(One, intensity) ELSE One
        color == IF FLt(Zero, level) THEN blend(baseColor, activeColor, level) ELSE baseColor
        scale == FAdd(One, FMul(FSub(scaleTarget, One), level))
    IN  [level |-> level, scaleTarget |-> scaleTarget, color |-> color,
         scale |-> scale, r |-> FMul(baseRadius, scale)]

isHoverActive(i) == hover # null /\ i \in activeSet /\ hoveredDot # -1

\* Chebyshev grid distance of dot i from the hovered dot
gridDist(i) ==
    Max(Abs(gridRow(i, cols) - gridRow(hoveredDot, cols)),
        Abs(gridCol(i, cols) - gridCol(hoveredDot, cols)))

\* the dot i as the current state renders it, for the render-only props
dotView(i, baseColor, activeColor, intensity, baseRadius) ==
    LET active == isHoverActive(i)
    IN  renderDot(active, IF active THEN gridDist(i) ELSE 0,
                  hoverDotCount, getTrailLevel(i), baseColor, activeColor, intensity, baseRadius)

\* the dots the current render treats as hover-active
HoverActive == {i \in Dots \cap activeSet : isHoverActive(i)}

\* the level of dot i in the current render (it depends on no render-only prop)
Level(i) == dotView(i, Hex(0, 0, 0), Hex(0, 0, 0), One, One).level

(***************************************************************************)
(* Frame callbacks.  A scheduled callback is its handle and the closure of *)
(* tick: the effect's 'mounted' flag and the props and state it captured.  *)
(* Handles are only ever compared with the handles still scheduled, so the *)
(* least handle not in use stands for a fresh one.                         *)
(***************************************************************************)
\* cancelAnimationFrame that cancels nothing
cancelAnimationFrame_noop(q, id) == q

cancelAnimationFrame(q, id) == {cb \in q : cb.id # id}

freshHandle(q) == CHOOSE n \in 1 .. (Cardinality(q) + 1) : \A cb \in q : cb.id # n

requestAnimationFrame(q, te, holdMs, fadeMs, hv) ==
    q \cup {[id |-> freshHandle(q), mounted |-> TRUE, trailEnabled |-> te,
             trailHoldMs |-> holdMs, trailFadeMs |-> fadeMs, hover |-> hv]}

(***************************************************************************)
(* Effects.  st is [hits, now]; c is [queue, ref, mounted].                *)
(***************************************************************************)
\* trailTimestampEffect that rebuilds the map from the cluster alone
trailTimestampEffect_clusterOnly(te, hv, as, st, t) ==
    IF ~te THEN st
    ELSE IF hv = null THEN st
    ELSE [hits |-> [i \in as |-> t], now |-> t]

\* Update trail timestamps when hover cluster changes
trailTimestampEffect(te, hv, as, st, t) ==
    IF ~te THEN st
    ELSE IF hv = null THEN st
    ELSE [hits |-> [i \in (DOMAIN st.hits) \cup as |-> IF i \in as THEN t ELSE st.hits[i]],
          now |-> t]

\* trailOffEffect that leaves the entries in place
trailOffEffect_keepsEntries(te, st) ==
    IF te THEN st
    ELSE [hits |-> st.hits, now |-> 0]

\* If trail is turned off, clear lingering state
trailOffEffect(te, st) ==
    IF te THEN st
    ELSE [hits |-> [i \in {} |-> 0], now |-> 0]

\* rafCleanup that forgets cancelAnimationFrame
rafCleanup_noCancel(c) ==
    [queue |-> {[cb EXCEPT !.mounted = FALSE] : cb \in c.queue},
     ref |-> NoHandle,
     mounted |-> FALSE]

\* the cleanup the RAF effect returns
rafCleanup(c) ==
    LET q == {[cb EXCEPT !.mounted = FALSE] : cb \in c.queue}
    IN  [queue |-> IF c.ref # NoHandle THEN cancelAnimationFrame(q, c.ref) ELSE q,
         ref |-> NoHandle,
         mounted |-> FALSE]

\* RAF clock runs only while needed
rafEffect(static, te, holdMs, fadeMs, hv, hits, c) ==
    IF static THEN c
    ELSE LET shouldRun == te /\ (hv # null \/ DOMAIN hits # {})
         IN  IF ~shouldRun
             THEN [queue |-> IF c.ref # NoHandle THEN cancelAnimationFrame(c.queue, c.ref)
                             ELSE c.queue,
                   ref |-> NoHandle,
                   mounted |-> FALSE]
             ELSE [queue |-> requestAnimationFrame(c.queue, te, holdMs, fadeMs, hv),
                   ref |-> freshHandle(c.queue),
                   mounted |-> TRUE]

\* Cleanup expired dots
tickExpire(hits, t, holdMs, fadeMs) ==
    LET hold == Max(0, holdMs)
        fade == Max(0, fadeMs)
        expire == hold + fade
    IN  IF expire <= 0 THEN [i \in {} |-> 0]
        ELSE [i \in {j \in DOMAIN hits : ~(t - hits[j] > expire)} |-> hits[i]]

\* stillNeeded without the test for an empty map and an absent pointer
stillNeeded_whileEnabled(te, hv, hits) == te

\* the tick's decision to go on
stillNeeded(te, hv, hits) == te /\ (hv # null \/ DOMAIN hits # {})

(***************************************************************************)
(* One committed update: the render with the new props and state, then the *)
(* cleanups and the effects whose dependencies changed, in source order.   *)
(* depStamp, depOff and depRaf say whether the dependencies of the         *)
(* timestamp effect, the trail-off effect and the RAF effect changed.      *)
(* A timestamp is written only up to Horizon: the clock of the model stops *)
(* at MaxTime, and an entry written later could never expire.              *)
(***************************************************************************)
Commit(te, holdMs, fadeMs, cnt, dim, hv, depStamp, depOff, depRaf) ==
    LET t == clock
        as == activeSetFor(hv, dim, dotSize, gap, cnt)
        c0 == [queue |-> rafQueue, ref |-> rafRef, mounted |-> mounted]
        c1 == IF depRaf /\ mounted THEN rafCleanup(c0) ELSE c0
        s0 == [hits |-> lastHit, now |-> now]
        s1 == IF depStamp THEN trailTimestampEffect(te, hv, as, s0, t) ELSE s0
        s2 == IF depOff THEN trailOffEffect(te, s1) ELSE s1
        c2 == IF depRaf THEN rafEffect(isStatic, te, holdMs, fadeMs, hv, s2.hits, c1) ELSE c1
    IN  /\ (depStamp /\ te /\ hv # null) => t <= Horizon
        /\ trailEnabled' = te
        /\ trailHoldMs' = holdMs
        /\ trailFadeMs' = fadeMs
        /\ hoverDotCount' = cnt
        /\ dimensions' = dim
        /\ hover' = hv
        /\ lastHit' = s2.hits
        /\ now' = s2.now
        /\ rafQueue' = c2.queue
        /\ rafRef' = c2.ref
        /\ mounted' = c2.mounted
        /\ UNCHANGED <<isStatic, dotSize, gap, alive, clock, call, ret>>

(***************************************************************************)
(* Actions                                                                 *)
(***************************************************************************)
\* onMouseMove: setHover({x, y}), a new object whatever the position
handleMouseMove(p) ==
    /\ alive
    /\ ~isStatic
    /\ Commit(trailEnabled, trailHoldMs, trailFadeMs, hoverDotCount, dimensions, p,
              TRUE, FALSE, TRUE)
    /\ ev' = "move"

\* onMouseLeave: setHover(null)
handleMouseLeave ==
    /\ alive
    /\ ~isStatic
    /\ hover # null
    /\ Commit(trailEnabled, trailHoldMs, trailFadeMs, hoverDotCount, dimensions, null,
              TRUE, FALSE, TRUE)
    /\ ev' = "leave"

\* update(): setDimensions(rect), a new object, so a new grid and cluster
update(d) ==
    /\ alive
    /\ Commit(trailEnabled, trailHoldMs, trailFadeMs, hoverDotCount, d, hover,
              TRUE, FALSE, FALSE)
    /\ ev' = "resize"

\* the parent renders the component with other trail or cluster props
SetProps(te, holdMs, fadeMs, cnt) ==
    /\ alive
    /\ <<te, holdMs, fadeMs, cnt>> # <<trailEnabled, trailHoldMs, trailFadeMs, hoverDotCount>>
    /\ Commit(te, holdMs, fadeMs, cnt, dimensions, hover,
              te # trailEnabled \/ cnt # hoverDotCount,
              te # trailEnabled,
              te # trailEnabled \/ holdMs # trailHoldMs \/ fadeMs # trailFadeMs)
    /\ ev' = IF trailEnabled /\ ~te THEN "disable" ELSE "props"

\* a scheduled frame callback fires
tick(cb) ==
    /\ cb \in rafQueue
    /\ IF ~cb.mounted
       THEN /\ rafQueue' = rafQueue \ {cb}
            /\ ev' = "stale"
            /\ UNCHANGED <<lastHit, now, rafRef>>
       ELSE LET t == clock
                hits == tickExpire(lastHit, t, cb.trailHoldMs, cb.trailFadeMs)
                q == rafQueue \ {cb}
            IN  /\ now' = t
                /\ lastHit' = hits
                /\ IF stillNeeded(cb.trailEnabled, cb.hover, hits)
                   THEN /\ rafQueue' = requestAnimationFrame(q, cb.trailEnabled,
                                            cb.trailHoldMs, cb.trailFadeMs, cb.hover)
                        /\ rafRef' = freshHandle(q)
                   ELSE /\ rafQueue' = q
                        /\ rafRef' = NoHandle
                /\ ev' = "tick"
    /\ UNCHANGED <<isStatic, trailEnabled, trailHoldMs, trailFadeMs, hoverDotCount,
                   dotSize, gap, dimensions, hover, mounted, alive, clock, call, ret>>

\* the component is torn down: the cleanups run, and React discards the
\* component's state and refs (written here as their initial values)
Unmount ==
    /\ alive
    /\ alive' = FALSE
    /\ LET c0 == [queue |-> rafQueue, ref |-> rafRef, mounted |-> mounted]
           c1 == IF mounted THEN rafCleanup(c0) ELSE c0
       IN  /\ rafQueue' = c1.queue
           /\ rafRef' = c1.ref
           /\ mounted' = c1.mounted
    /\ hover' = null
    /\ dimensions' = <<0, 0>>
    /\ lastHit' = [i \in {} |-> 0]
    /\ now' = 0
    /\ ev' = "unmount"
    /\ UNCHANGED <<isStatic, trailEnabled, trailHoldMs, trailFadeMs, hoverDotCount,
                   dotSize, gap, clock, call, ret>>

\* performance.now() moves on
Advance ==
    /\ alive
    /\ clock < MaxTime
    /\ clock' = clock + 1
    /\ ev' = "time"
    /\ UNCHANGED <<isStatic, trailEnabled, trailHoldMs, trailFadeMs, hoverDotCount,
                   dotSize, gap, dimensions, hover, lastHit, now, rafRef, rafQueue,
                   mounted, alive, call, ret>>

\* some scheduled frame callback fires
TickStep == \E cb \in rafQueue : tick(cb)

NoCall == [op |-> "none"]
NoRet == [op |-> "none"]

\* the state after the first render and its effects: no pointer, a container
\* not yet measured, no trail entry, and so no frame callback
Init ==
    /\ isStatic \in BOOLEAN
    /\ trailEnabled \in BOOLEAN
    /\ trailHoldMs \in HoldValues
    /\ trailFadeMs \in FadeValues
    /\ hoverDotCount \in CountValues
    /\ dotSize \in DotSizes
    /\ gap \in Gaps
    /\ dimensions = <<0, 0>>
    /\ hover = null
    /\ lastHit = [i \in {} |-> 0]
    /\ now = 0
    /\ rafRef = NoHandle
    /\ rafQueue = {}
    /\ mounted = FALSE
    /\ alive = TRUE
    /\ clock = 0
    /\ ev = "mount"
    /\ call = NoCall
    /\ ret = NoRet

Next ==
    \/ \E p \in Pointers : handleMouseMove(p)
    \/ handleMouseLeave
    \/ \E d \in Sizes : update(d)
    \/ \E te \in BOOLEAN, h \in HoldValues, f \in FadeValues, n \in CountValues :
           SetProps(te, h, f, n)
    \/ TickStep
    \/ Unmount
    \/ Advance

Spec == Init /\ [][Next]_vars

\* the same component under a parent that never changes its props
SteadyNext ==
    \/ \E p \in Pointers : handleMouseMove(p)
    \/ handleMouseLeave
    \/ \E d \in Sizes : update(d)
    \/ TickStep
    \/ Unmount
    \/ Advance

SteadySpec == Init /\ [][SteadyNext]_vars

\* the browser runs a scheduled frame callback at its next frame, and time
\* does not stop
LiveSpec == Spec /\ WF_vars(TickStep) /\ WF_vars(Advance)

(***************************************************************************)
(* The cluster calculation on its own: activeSet for every grid up to      *)
(* MaxGrid x MaxGrid, every hovered dot of it and every count.             *)
(***************************************************************************)
MaxGrid == 11
CountMin == 2
CountMax == 10

ActiveSetCalls ==
    {c \in [op : {"activeSet"}, rows : 1 .. MaxGrid, cols : 1 .. MaxGrid,
            row : 0 .. (MaxGrid - 1), col : 0 .. (MaxGrid - 1),
            count : (-1) .. CountMax] :
        c.row < c.rows /\ c.col < c.cols}

PureInit ==
    /\ isStatic = FALSE
    /\ trailEnabled = FALSE
    /\ trailHoldMs = 0
    /\ trailFadeMs = 0
    /\ hoverDotCount = 1
    /\ dotSize \in DotSizes
    /\ gap \in Gaps
    /\ dimensions = <<0, 0>>
    /\ hover = null
    /\ lastHit = [i \in {} |-> 0]
    /\ now = 0
    /\ rafRef = NoHandle
    /\ rafQueue = {}
    /\ mounted = FALSE
    /\ alive = TRUE
    /\ clock = 0
    /\ ev = "mount"
    /\ call \in ActiveSetCalls
    /\ ret = NoRet

callActiveSet ==
    /\ call.op = "activeSet"
    /\ ret = NoRet
    /\ ret' = [op |-> "activeSet",
               value |-> activeSetOf(call.row, call.col, call.rows, call.cols, call.count)]
    /\ UNCHANGED <<isStatic, trailEnabled, trailHoldMs, trailFadeMs, hoverDotCount,
                   dotSize, gap, dimensions, hover, lastHit, now, rafRef, rafQueue,
                   mounted, alive, clock, ev, call>>

PureNext == callActiveSet

PureSpec == PureInit /\ [][PureNext]_vars

(***************************************************************************)
(* The grid calculation on its own: the grid of every container up to      *)
(* MaxSide x MaxSide (and of two wider ones at the default pitch) for dot  *)
(* sizes and gaps of the controls' ranges.                                 *)
(***************************************************************************)
MaxSide == 12
Sides == (0 .. MaxSide) \cup {63, 64}
LayoutDotSizes == {1, 3, 16}
LayoutGaps == {4, 7, 32}

GridCalls ==
    [op : {"grid"}, width : Sides, height : Sides,
     dotSize : LayoutDotSizes, gap : LayoutGaps]

LayoutInit ==
    /\ isStatic = FALSE
    /\ trailEnabled = FALSE
    /\ trailHoldMs = 0
    /\ trailFadeMs = 0
    /\ hoverDotCount = 1
    /\ dotSize \in DotSizes
    /\ gap \in Gaps
    /\ dimensions = <<0, 0>>
    /\ hover = null
    /\ lastHit = [i \in {} |-> 0]
    /\ now = 0
    /\ rafRef = NoHandle
    /\ rafQueue = {}
    /\ mounted = FALSE
    /\ alive = TRUE
    /\ clock = 0
    /\ ev = "mount"
    /\ call \in GridCalls
    /\ ret = NoRet

callGrid ==
    /\ call.op = "grid"
    /\ ret = NoRet
    /\ ret' = [op |-> "grid",
               value |-> gridOf(<<call.width, call.height>>, call.dotSize, call.gap)]
    /\ UNCHANGED <<isStatic, trailEnabled, trailHoldMs, trailFadeMs, hoverDotCount,
                   dotSize, gap, dimensions, hover, lastHit, now, rafRef, rafQueue,
                   mounted, alive, clock, ev, call>>

LayoutNext == callGrid

LayoutSpec == LayoutInit /\ [][LayoutNext]_vars

(***************************************************************************)
(* The render of a hover-active dot on its own: every grid distance up to  *)
(* MaxDist, every count from below 0 to above the control's range, and     *)
(* intensities from 0 to the control's maximum.                            *)
(***************************************************************************)
MaxDist == 6
ScaleCounts == (-2) .. (CountMax + 1)
ScaleIntensities == {Frac(0, 1), Frac(1, 10), Frac(95, 100), Frac(5, 1)}
ScaleRadii == {Frac(1, 2), Frac(8, 1)}

ScaleCalls ==
    [op : {"renderDot"}, dist : 0 .. MaxDist, count : ScaleCounts,
     intensity : ScaleIntensities, baseRadius : ScaleRadii]

ScaleInit ==
    /\ isStatic = FALSE
    /\ trailEnabled = FALSE
    /\ trailHoldMs = 0
    /\ trailFadeMs = 0
    /\ hoverDotCount = 1
    /\ dotSize \in DotSizes
    /\ gap \in Gaps
    /\ dimensions = <<0, 0>>
    /\ hover = null
    /\ lastHit = [i \in {} |-> 0]
    /\ now = 0
    /\ rafRef = NoHandle
    /\ rafQueue = {}
    /\ mounted = FALSE
    /\ alive = TRUE
    /\ clock = 0
    /\ ev = "mount"
    /\ call \in ScaleCalls
    /\ ret = NoRet

\* the render of a dot with isHoverActive true
callRenderDot ==
    /\ call.op = "renderDot"
    /\ ret = NoRet
    /\ ret' = [op |-> "renderDot",
               value |-> renderDot(TRUE, call.dist, call.count, Zero,
                                   Hex(82, 39, 255), Hex(255, 255, 255),
                                   call.intensity, call.baseRadius)]
    /\ UNCHANGED <<isStatic, trailEnabled, trailHoldMs, trailFadeMs, hoverDotCount,
                   dotSize, gap, dimensions, hover, lastHit, now, rafRef, rafQueue,
                   mounted, alive, clock, ev, call>>

ScaleNext == callRenderDot

ScaleSpec == ScaleInit /\ [][ScaleNext]_vars

(***************************************************************************)
(* Properties                                                              *)
(***************************************************************************)
Colors == {Hex(82, 39, 255), Hex(255, 255, 255), Css(255, 255, 255)}
Intensities == {Frac(95, 100)}
Radii == {Frac(8, 1)}

Idle == DOMAIN lastHit = {} /\ rafQueue = {}

\* C1: with trailing enabled, once the pointer has left and stays absent, then
\* (frame callbacks firing and time advancing) the trail-entry map eventually
\* becomes empty and no frame callback remains scheduled, for good.
C1_TrailLoopTerminates ==
    <>[](alive /\ trailEnabled /\ hover = null) => <>[]Idle

\* the tick that evicted the last faded entry after the pointer left, and
\* scheduled nothing
C1_Witness ==
    /\ ev = "tick"
    /\ alive /\ trailEnabled /\ hover = null
    /\ trailFadeMs > 0
    /\ now > 0
    /\ Idle
    /\ rafRef = NoHandle

\* C2: a frame callback is scheduled only if trailEnabled and (the pointer is
\* present or the trail-entry map is non-empty).
C2_LoopOnlyWhileNeeded ==
    (rafQueue # {} \/ rafRef # NoHandle)
        => (trailEnabled /\ (hover # null \/ DOMAIN lastHit # {}))

\* the loop runs for the sake of the entries alone
C2_Witness ==
    /\ ev = "tick"
    /\ rafQueue # {}
    /\ hover = null
    /\ DOMAIN lastHit # {}

\* C3: with trailing enabled and a hold window of some length, a dot that
\* stops being hover-active (the pointer moved on or left) is still displayed
\* with level 1 at the moment it leaves the cluster, however long the pointer
\* had rested on it.
C3_HoldStartsAtLeave ==
    [][(/\ ev' \in {"move", "leave"}
        /\ trailEnabled
        /\ trailHoldMs > 0)
       => \A i \in HoverActive \ HoverActive' : FEq((Level(i))', One)]_vars

\* C4: the trail intensity of a dot is 0 without an entry, 1 while
\* elapsed <= hold, 1 - (elapsed - hold) / fade while hold < elapsed <= hold + fade,
\* and 0 after that (so 0 for every elapsed > hold when fade = 0); with hold 180
\* and fade 520, elapsed 100 gives 1 and elapsed 440 gives 0.5.
C4_TrailIntensity ==
    /\ \A i \in Dots \cup DOMAIN lastHit :
        LET lvl == getTrailLevel(i)
            hold == Max(0, trailHoldMs)
            fade == Max(0, trailFadeMs)
        IN  /\ lvl[2] > 0
            /\ IF i \notin DOMAIN lastHit THEN FEq(lvl, Zero)
               ELSE LET elapsed == now - lastHit[i]
                    IN  /\ elapsed <= hold => FEq(lvl, One)
                        /\ (hold < elapsed /\ elapsed <= hold + fade)
                              => lvl[1] * fade = (fade - (elapsed - hold)) * lvl[2]
                        /\ elapsed > hold + fade => FEq(lvl, Zero)
    /\ FEq(getTrailLevelOf(TRUE, [i \in {7} |-> 1000], 180, 520, 1100, 7), One)
    /\ FEq(getTrailLevelOf(TRUE, [i \in {7} |-> 1000], 180, 520, 1440, 7), Frac(1, 2))
    /\ FEq(getTrailLevelOf(TRUE, [i \in {7} |-> 1000], 180, 520, 1700, 7), Zero)
    /\ FEq(getTrailLevelOf(TRUE, [i \in {7} |-> 1000], 180, 0, 1181, 7), Zero)

\* an entry half way through its fade
C4_Witness ==
    \E i \in DOMAIN lastHit :
        /\ now - lastHit[i] > Max(0, trailHoldMs)
        /\ FLt(Zero, getTrailLevel(i))
        /\ FLt(getTrailLevel(i), One)

\* C5: for trailHoldMs >= 0 and trailFadeMs >= 0 (both zero included), a tick
\* at time t removes exactly the entries with t - t0 > hold + fade.
C5_EvictStrictlyAfterWindow ==
    [][(ev' = "tick" /\ trailHoldMs >= 0 /\ trailFadeMs >= 0)
       => DOMAIN lastHit' =
            {i \in DOMAIN lastHit : ~(clock - lastHit[i] > trailHoldMs + trailFadeMs)}]_vars

\* C6: whenever trailEnabled is false the trail-entry map is empty (so
\* disabling cleared it and no pointer move added to it) and every dot that is
\* not hover-active has level 0, the base color and the base radius.
C6_DisabledIsReset ==
    ~trailEnabled =>
        /\ DOMAIN lastHit = {}
        /\ \A i \in Dots \ HoverActive :
                \A bc \in Colors, ac \in Colors, k \in Intensities, r \in Radii :
                    LET v == dotView(i, bc, ac, k, r)
                    IN  FEq(v.level, Zero) /\ v.color = bc /\ FEq(v.r, r)

\* trailing has just been turned off under a present pointer
C6_Witness ==
    /\ ev = "disable"
    /\ ~trailEnabled
    /\ hover # null
    /\ Dots \ HoverActive # {}

\* C7: with trailing enabled a pointer move sets the timestamp of every index
\* of the new cluster to the current time and leaves every other entry as it
\* was; a pointer leave leaves the map as it was; an entry goes only in a tick
\* or when trailing is disabled.
C7_PointerNeverRemoves ==
    [][/\ (ev' = "move" /\ trailEnabled) =>
            \A cluster \in {activeSet'} :
                /\ DOMAIN lastHit' = DOMAIN lastHit \cup cluster
                /\ \A i \in DOMAIN lastHit' :
                     lastHit'[i] = IF i \in cluster THEN clock ELSE lastHit[i]
       /\ ev' = "leave" => lastHit' = lastHit
       /\ (alive' /\ \E i \in DOMAIN lastHit : i \notin DOMAIN lastHit')
            => ev' \in {"tick", "disable"}]_vars

\* a pointer move has left an older entry outside the new cluster in place
C7_Witness ==
    /\ ev = "move"
    /\ trailEnabled
    /\ \E i \in DOMAIN lastHit : i \notin activeSet /\ lastHit[i] < clock

\* C8: for hoverDotCount N in 2..10 and a hovered dot at least floor(N/2) cells
\* from every grid edge the cluster has exactly N*N members; with no pointer
\* the cluster is empty.
C8_ClusterIsCountSquared ==
    /\ (/\ ret.op = "activeSet"
        /\ call.count \in CountMin .. CountMax
        /\ call.row >= call.count \div 2
        /\ call.col >= call.count \div 2
        /\ call.row + call.count \div 2 < call.rows
        /\ call.col + call.count \div 2 < call.cols)
       => Cardinality(ret.value) = call.count * call.count
    /\ activeSetFor(null, dimensions, dotSize, gap, hoverDotCount) = {}

C10_HoverOverridesTrail ==
    LET active == HoverActive
    IN  \A i \in Dots :
          \A bc \in Colors, ac \in Colors, k \in Intensities, r \in Radii :
            LET v == dotView(i, bc, ac, k, r)
            IN  /\ i \in active => (FEq(v.level, One) /\ v.color.rgb = ac.rgb)
                /\ i \notin active =>
                      /\ FEq(v.level, getTrailLevel(i))
                      /\ FEq(v.level, Zero) => (v.color = bc /\ FEq(v.r, r))
                /\ FLeq(Zero, v.level)
                /\ FLeq(v.level, One)

\* C11 (amended): for every container width >= 0 and height >= 0 and every
\* dotSize and gap of their ranges, cols is the greatest number of columns of
\* pitch dotSize + gap that fit the width, and 1 when none fits; rows
\* likewise for the height; the dot list has exactly cols*rows elements in
\* row-major order (the dot at position i has row = i div cols and
\* col = i mod cols); a zero-width container yields one column and a
\* zero-height container one row, so the grid is never empty.
C11_GridShape ==
    ret.op = "grid" =>
        LET nc == ret.value.cols
            nr == ret.value.rows
            grid == ret.value.grid
            cell == call.dotSize + call.gap
            fit(n, side) == n * cell - call.gap <= side
        IN  /\ nc >= 1 /\ nr >= 1
            /\ nc = Max(1, (call.width + call.gap) \div cell)
            /\ nr = Max(1, (call.height + call.gap) \div cell)
            /\ (nc > 1 => fit(nc, call.width)) /\ ~fit(nc + 1, call.width)
            /\ (nr > 1 => fit(nr, call.height)) /\ ~fit(nr + 1, call.height)
            /\ Len(grid) = nc * nr
            /\ \A i \in 0 .. (Len(grid) - 1) :
                  /\ grid[i + 1].row = i \div nc
                  /\ grid[i + 1].col = i % nc
                  /\ i = grid[i + 1].row * nc + grid[i + 1].col
            /\ call.width = 0 => nc = 1
            /\ call.height = 0 => nr = 1
            /\ Len(grid) >= 1

\* a grid of several rows and columns that differ, and the last dot of it
C11_Witness ==
    /\ ret.op = "grid"
    /\ ret.value.cols = 3
    /\ ret.value.rows = 2
    /\ Len(ret.value.grid) = 6
    /\ ret.value.grid[6].row = 1
    /\ ret.value.grid[6].col = 2

\* C11 as stated: a zero-width or zero-height container yields a 1x1 grid.
C11_ZeroSideIsOneByOne ==
    (ret.op = "grid" /\ (call.width = 0 \/ call.height = 0))
        => (ret.value.cols = 1 /\ ret.value.rows = 1 /\ Len(ret.value.grid) = 1)

C13_TrailKeysInGrid ==
    \A k \in DOMAIN lastHit : 0 <= k /\ k < rows * cols

\* C14: at most one frame callback is scheduled at any time, under every
\* interleaving of pointer moves and leaves, changes of trailEnabled,
\* trailHoldMs and trailFadeMs, ticks and teardown; the scheduled callback is
\* the one rafRef names and belongs to the current effect instance (its
\* 'mounted' flag is set and it closes over the current props and pointer),
\* so no tick of a superseded or torn-down instance is left to write the
\* clock, evict entries or reschedule itself; after teardown none is scheduled.
C14_OneFrameCallback ==
    /\ Cardinality(rafQueue) <= 1
    /\ \A cb \in rafQueue :
          /\ cb.id = rafRef
          /\ cb.mounted
          /\ mounted
          /\ alive
          /\ cb.trailEnabled = trailEnabled
          /\ cb.trailHoldMs = trailHoldMs
          /\ cb.trailFadeMs = trailFadeMs
          /\ cb.hover = hover
    /\ rafRef # NoHandle => \E cb \in rafQueue : cb.id = rafRef
    /\ ~alive => (rafQueue = {} /\ rafRef = NoHandle /\ ~mounted)
    /\ ev # "stale"

\* a pointer move made while a trail entry was keeping the loop running: the
\* effect instance of the move replaced the one that was scheduled
C14_Witness ==
    /\ ev = "move"
    /\ trailEnabled
    /\ now = clock
    /\ \E i \in DOMAIN lastHit : lastHit[i] < clock
    /\ Cardinality(rafQueue) = 1
    /\ \A cb \in rafQueue : cb.hover = hover /\ cb.id = rafRef

====
